---- MODULE Spec2Model ----
(***************************************************************************)
(* Model of lokalise.client.Client (lazy endpoint resolution, memoization  *)
(* and reset) and of lokalise.collections.projects.ProjectsCollection      *)
(* (construction from a raw page and the pagination queries).              *)
(*                                                                         *)
(* Python objects are records [type, v]: the class name and, for objects   *)
(* with identity, the number of the instance; None is the one NoneType     *)
(* object.  A call's outcome is a record [raised, ret]: ret is the value   *)
(* returned or the exception raised.                                       *)
(***************************************************************************)
EXTENDS Integers, Sequences, FiniteSets, TLC

VARIABLES
    token,            \* Client.token
    connect_timeout,  \* Client.connect_timeout
    read_timeout,     \* Client.read_timeout
    endpoint_attrs,   \* the instance attributes "__<name>_endpoint", keyed by <name>
    next_id,          \* number of the next object to be constructed
    lastCall,         \* the last call made on the client and its outcome
    returned,         \* per name: objects get_endpoint returned since the last reset
    stored,           \* per name: objects stored as the attribute since the last reset
    retired,          \* per name: handlers get_endpoint returned before the last reset
    pc,               \* per thread: position inside get_endpoint
    frame,            \* per thread: locals of the running get_endpoint call
    raw_data,         \* the raw page last handed to ProjectsCollection
    collection,       \* outcome of that construction: the collection's attributes, or the exception
    answers           \* per pagination query called on that collection: its outcome

vars == << token, connect_timeout, read_timeout, endpoint_attrs, next_id,
           lastCall, returned, stored, retired, pc, frame,
           raw_data, collection, answers >>

clientVars == << token, connect_timeout, read_timeout, endpoint_attrs, next_id,
                 lastCall, returned, stored, retired >>

threadVars == << pc, frame >>

collectionVars == << raw_data, collection, answers >>

\* ---------------------------------------------------------------- bounds
MaxInstances == 3
NThreads == 2
MaxItems == 2

\* ---------------------------------------------------------------- objects
Obj(type, v) == [type |-> type, v |-> v]
None == Obj("NoneType", 0)
PyInt(n) == Obj("int", n)
Str(chars) == Obj("str", chars)
True == Obj("bool", 1)
False == Obj("bool", 0)
Bool(b) == IF b THEN True ELSE False
not(o) == Bool(o.v = 0)

Return(o) == [raised |-> FALSE, ret |-> o]
Raise(kind) == [raised |-> TRUE, ret |-> Obj(kind, 0)]

\* ---------------------------------------------------------------- endpoint modules
\* The names client.py resolves, each with the class snake_to_camel(name + "_endpoint")
\* names in module lokalise.endpoints.<name>_endpoint.
EndpointClass ==
    [ n \in {"branches", "project_comments", "key_comments", "contributors",
             "files", "languages", "projects", "queued_processes"} |->
        CASE n = "branches" -> "BranchesEndpoint"
          [] n = "project_comments" -> "ProjectCommentsEndpoint"
          [] n = "key_comments" -> "KeyCommentsEndpoint"
          [] n = "contributors" -> "ContributorsEndpoint"
          [] n = "files" -> "FilesEndpoint"
          [] n = "languages" -> "LanguagesEndpoint"
          [] n = "projects" -> "ProjectsEndpoint"
          [] n = "queued_processes" -> "QueuedProcessesEndpoint" ]

RegisteredNames == DOMAIN EndpointClass
UnknownNames == {"", "webhooks"}
Names == RegisteredNames \cup UnknownNames

EndpointClasses == { EndpointClass[n] : n \in RegisteredNames }
IsHandler(o) == o.type \in EndpointClasses

\* importlib.import_module(".endpoints.<name>_endpoint") followed by
\* getattr(module, camelized_name): the class, or the import's failure.
import_module(name) ==
    IF name \in RegisteredNames
    THEN Return(Obj("type", 0)) @@ [klass |-> EndpointClass[name]]
    ELSE Raise("ModuleNotFoundError") @@ [klass |-> ""]

\* ---------------------------------------------------------------- attribute access
hasattr(attrs, a) == a \in DOMAIN attrs
getattr(attrs, a) == attrs[a]
setattrOnly(attrs, a, o) == [ x \in {a} |-> o ]

setattr(attrs, a, o) == [ x \in DOMAIN attrs \cup {a} |-> IF x = a THEN o ELSE attrs[x] ]

\* Client.__fetch_attr; populated is the object populator() constructs when called.
fetch_attrAlways(attrs, a, populated) ==
    LET after == setattr(attrs, a, populated)
    IN  [attrs |-> after, called |-> TRUE, ret |-> getattr(after, a)]

fetch_attr(attrs, a, populated) ==
    LET absent == ~hasattr(attrs, a)
        after == IF absent THEN setattr(attrs, a, populated) ELSE attrs
    IN  [attrs |-> after, called |-> absent, ret |-> getattr(after, a)]

\* Client.__clear_endpoint_attrs: every attribute whose name ends with "_endpoint"
\* is set to None (the attribute stays).
clear_endpoint_attrsNoop(attrs) == attrs

clear_endpoint_attrs(attrs) == [ a \in DOMAIN attrs |-> None ]

\* ---------------------------------------------------------------- Client.__init__
Tokens == {"api_token"}
\* (connect_timeout, read_timeout): the defaults, or both given.
Timeouts == { << None, None >>, << PyInt(5), PyInt(10) >> }

NoCallYet == [op |-> "__init__", name |-> "", raised |-> FALSE, ret |-> None]

InitClient ==
    /\ token \in Tokens
    /\ \E t \in Timeouts : connect_timeout = t[1] /\ read_timeout = t[2]
    /\ endpoint_attrs = << >>
    /\ next_id = 1
    /\ lastCall = NoCallYet
    /\ returned = [n \in Names |-> {}]
    /\ stored = [n \in Names |-> {}]
    /\ retired = [n \in Names |-> {}]
    /\ pc = [t \in 1..NThreads |-> "idle"]
    /\ frame = [t \in 1..NThreads |-> [name |-> "", populated |-> None]]

Init ==
    /\ InitClient
    /\ raw_data = << >>
    /\ collection = Return(None)
    /\ answers = << >>

\* ---------------------------------------------------------------- Client.get_endpoint
\* What get_endpoint(name) does to the endpoint attributes and what it returns or
\* raises; id numbers the handler constructed if populator() is called.
get_endpointSilent(attrs, name, id) ==
    LET module == import_module(name)
    IN  IF module.raised
        THEN [attrs |-> attrs, called |-> FALSE, raised |-> FALSE, ret |-> None]
        ELSE LET r == fetch_attr(attrs, name, Obj(module.klass, id))
             IN  [attrs |-> r.attrs, called |-> r.called, raised |-> FALSE, ret |-> r.ret]

get_endpoint(attrs, name, id) ==
    LET module == import_module(name)
    IN  IF module.raised
        THEN [attrs |-> attrs, called |-> FALSE, raised |-> TRUE, ret |-> module.ret]
        ELSE LET r == fetch_attr(attrs, name, Obj(module.klass, id))
             IN  [attrs |-> r.attrs, called |-> r.called, raised |-> FALSE, ret |-> r.ret]

GetEndpoint ==
    \E name \in Names :
        LET r == get_endpoint(endpoint_attrs, name, next_id)
        IN  /\ r.called => next_id <= MaxInstances
            /\ endpoint_attrs' = r.attrs
            /\ next_id' = IF r.called THEN next_id + 1 ELSE next_id
            /\ stored' = IF r.called
                         THEN [stored EXCEPT ![name] = @ \cup {r.ret}]
                         ELSE stored
            /\ returned' = IF r.raised
                           THEN returned
                           ELSE [returned EXCEPT ![name] = @ \cup {r.ret}]
            /\ lastCall' = [op |-> "get_endpoint", name |-> name,
                            raised |-> r.raised, ret |-> r.ret]
            /\ UNCHANGED << token, connect_timeout, read_timeout, retired >>
            /\ UNCHANGED << threadVars, collectionVars >>

\* ---------------------------------------------------------------- Client.reset_client
ResetClient ==
    /\ token' = ""
    /\ connect_timeout' = None
    /\ read_timeout' = None
    /\ endpoint_attrs' = clear_endpoint_attrs(endpoint_attrs)
    /\ retired' = [n \in Names |-> retired[n] \cup { o \in returned[n] : IsHandler(o) }]
    /\ returned' = [n \in Names |-> {}]
    /\ stored' = [n \in Names |-> {}]
    /\ lastCall' = [op |-> "reset_client", name |-> "", raised |-> FALSE, ret |-> None]
    /\ UNCHANGED << next_id, threadVars, collectionVars >>

Next == GetEndpoint \/ ResetClient

Spec == Init /\ [][Next]_vars

\* ---------------------------------------------------------------- concurrent callers
\* get_endpoint called from several threads on one client, one statement at a time:
\* the import, hasattr, populator(), setattr, and the final getattr.
Threads == 1..NThreads
ThreadNames == {"projects", "branches", "webhooks"}

TCall(t) ==
    /\ pc[t] = "idle"
    /\ \E name \in ThreadNames :
          LET module == import_module(name)
          IN  IF module.raised
              THEN /\ lastCall' = [op |-> "get_endpoint", name |-> name,
                                   raised |-> TRUE, ret |-> module.ret]
                   /\ UNCHANGED << pc, frame >>
              ELSE /\ pc' = [pc EXCEPT ![t] = "hasattr"]
                   /\ frame' = [frame EXCEPT ![t] = [name |-> name, populated |-> None]]
                   /\ UNCHANGED lastCall
    /\ UNCHANGED << token, connect_timeout, read_timeout, endpoint_attrs, next_id,
                    returned, stored, retired, collectionVars >>

THasattr(t) ==
    /\ pc[t] = "hasattr"
    /\ pc' = [pc EXCEPT ![t] = IF hasattr(endpoint_attrs, frame[t].name)
                               THEN "getattr" ELSE "populator"]
    /\ UNCHANGED << clientVars, frame, collectionVars >>

TPopulator(t) ==
    /\ pc[t] = "populator"
    /\ next_id <= MaxInstances
    /\ frame' = [frame EXCEPT ![t].populated = Obj(EndpointClass[frame[t].name], next_id)]
    /\ next_id' = next_id + 1
    /\ pc' = [pc EXCEPT ![t] = "setattr"]
    /\ UNCHANGED << token, connect_timeout, read_timeout, endpoint_attrs, lastCall,
                    returned, stored, retired, collectionVars >>

TSetattr(t) ==
    /\ pc[t] = "setattr"
    /\ endpoint_attrs' = setattr(endpoint_attrs, frame[t].name, frame[t].populated)
    /\ stored' = [stored EXCEPT ![frame[t].name] = @ \cup {frame[t].populated}]
    /\ pc' = [pc EXCEPT ![t] = "getattr"]
    /\ UNCHANGED << token, connect_timeout, read_timeout, next_id, lastCall,
                    returned, retired, frame, collectionVars >>

TGetattr(t) ==
    /\ pc[t] = "getattr"
    /\ LET ret == getattr(endpoint_attrs, frame[t].name)
       IN  /\ returned' = [returned EXCEPT ![frame[t].name] = @ \cup {ret}]
           /\ lastCall' = [op |-> "get_endpoint", name |-> frame[t].name,
                           raised |-> FALSE, ret |-> ret]
    /\ pc' = [pc EXCEPT ![t] = "idle"]
    /\ frame' = [frame EXCEPT ![t] = [name |-> "", populated |-> None]]
    /\ UNCHANGED << token, connect_timeout, read_timeout, endpoint_attrs, next_id,
                    stored, retired, collectionVars >>

NextThreads ==
    \E t \in Threads :
        TCall(t) \/ THasattr(t) \/ TPopulator(t) \/ TSetattr(t) \/ TGetattr(t)

SpecThreads == Init /\ [][NextThreads]_vars

\* ---------------------------------------------------------------- raw pages
\* A raw page is a dict: a function whose domain is the set of keys present.
dict_get(d, k, default) == IF k \in DOMAIN d THEN d[k] ELSE default

RawItems == { [project_id |-> "p1"], [project_id |-> "p2"] }
ItemArrays == UNION { [1..k -> RawItems] : k \in 0..MaxItems }

PaginationKeys == {"x-pagination-total-count", "x-pagination-page-count",
                   "x-pagination-limit", "x-pagination-page"}

\* The header values a page may carry under each pagination key.
HeaderValues(k) ==
    IF k \in {"x-pagination-page", "x-pagination-page-count"}
    THEN { Str(<<"0">>), Str(<<"1">>), Str(<<"2">>), Str(<<"-", "1">>), Str(<<"x">>) }
    ELSE { Str(<<"1", "0">>), Str(<<>>) }

PaginationBlocks ==
    UNION { { b \in [K -> UNION { HeaderValues(k) : k \in K }] :
                \A k \in K : b[k] \in HeaderValues(k) } : K \in SUBSET PaginationKeys }

RawPage(withItems, items, withPagination, pagination) ==
    [ k \in (IF withItems THEN {"projects"} ELSE {}) \cup
            (IF withPagination THEN {"_pagination"} ELSE {}) |->
        IF k = "projects" THEN items ELSE pagination ]

RawPages ==
    { RawPage(wi, items, wp, pagination) :
        wi \in BOOLEAN, items \in ItemArrays, wp \in BOOLEAN, pagination \in PaginationBlocks }

\* ---------------------------------------------------------------- int()
Digit == [ c \in {"0", "1", "2", "3", "4", "5", "6", "7", "8", "9"} |->
             CASE c = "0" -> 0 [] c = "1" -> 1 [] c = "2" -> 2 [] c = "3" -> 3
               [] c = "4" -> 4 [] c = "5" -> 5 [] c = "6" -> 6 [] c = "7" -> 7
               [] c = "8" -> 8 [] c = "9" -> 9 ]

RECURSIVE DigitsValue(_)
DigitsValue(chars) ==
    IF chars = << >> THEN 0
    ELSE 10 * DigitsValue(SubSeq(chars, 1, Len(chars) - 1)) + Digit[chars[Len(chars)]]

\* Python's int(o): an int is returned as it is; a str is parsed as an optional
\* sign followed by one or more decimal digits, anything else is a ValueError.
int(o) ==
    IF o.type = "int" THEN Return(o)
    ELSE LET chars == o.v
             signed == chars # << >> /\ chars[1] \in {"-", "+"}
             digits == IF signed THEN Tail(chars) ELSE chars
         IN  IF digits = << >> \/ \E i \in 1..Len(digits) : digits[i] \notin DOMAIN Digit
             THEN Raise("ValueError")
             ELSE Return(PyInt((IF signed /\ chars[1] = "-" THEN -1 ELSE 1)
                                  * DigitsValue(digits)))

\* ---------------------------------------------------------------- ProjectsCollection.__init__
ProjectModel(item) == [type |-> "ProjectModel", raw |-> item]

\* The loop "for item in raw_items: self.items.append(ProjectModel(item))".
RECURSIVE append_itemsReversed(_, _)
append_itemsReversed(items, raw_items) ==
    IF raw_items = << >> THEN items
    ELSE append_itemsReversed(<< ProjectModel(Head(raw_items)) >> \o items, Tail(raw_items))

RECURSIVE append_items(_, _)
append_items(items, raw_items) ==
    IF raw_items = << >> THEN items
    ELSE append_items(Append(items, ProjectModel(Head(raw_items))), Tail(raw_items))

\* Lines 13-19: the attributes set from the page's "_pagination" block, if it is
\* not empty; the first int() that fails ends the construction.
set_pagination(self, raw) ==
    LET pagination == dict_get(raw, "_pagination", << >>)
    IN  IF DOMAIN pagination = {} THEN Return(self)
        ELSE LET total_count == int(dict_get(pagination, "x-pagination-total-count", PyInt(0)))
                 page_count == int(dict_get(pagination, "x-pagination-page-count", PyInt(0)))
                 limit == int(dict_get(pagination, "x-pagination-limit", PyInt(0)))
                 current_page == int(dict_get(pagination, "x-pagination-page", PyInt(0)))
             IN  IF total_count.raised THEN total_count
                 ELSE IF page_count.raised THEN page_count
                 ELSE IF limit.raised THEN limit
                 ELSE IF current_page.raised THEN current_page
                 ELSE Return([ a \in DOMAIN self \cup {"total_count", "page_count",
                                                       "limit", "current_page"} |->
                                 CASE a = "total_count" -> total_count.ret
                                   [] a = "page_count" -> page_count.ret
                                   [] a = "limit" -> limit.ret
                                   [] a = "current_page" -> current_page.ret
                                   [] OTHER -> self[a] ])

ProjectsCollectionLenient(raw) ==
    set_pagination([items |-> append_items(<< >>, dict_get(raw, "projects", << >>))], raw)

ProjectsCollection(raw) ==
    IF "projects" \notin DOMAIN raw THEN Raise("KeyError")
    ELSE set_pagination([items |-> append_items(<< >>, raw["projects"])], raw)

\* ---------------------------------------------------------------- pagination queries
\* self.<a>: an attribute that was never set raises AttributeError.
attribute(self, a) == IF a \in DOMAIN self THEN Return(self[a]) ELSE Raise("AttributeError")

has_next_pageInclusive(self) ==
    LET current_page == attribute(self, "current_page")
        page_count == attribute(self, "page_count")
    IN  IF current_page.raised THEN current_page
        ELSE IF ~(current_page.ret.v > 0) THEN Return(False)
        ELSE IF page_count.raised THEN page_count
        ELSE Return(Bool(current_page.ret.v <= page_count.ret.v))

has_next_page(self) ==
    LET current_page == attribute(self, "current_page")
        page_count == attribute(self, "page_count")
    IN  IF current_page.raised THEN current_page
        ELSE IF ~(current_page.ret.v > 0) THEN Return(False)
        ELSE IF page_count.raised THEN page_count
        ELSE Return(Bool(current_page.ret.v < page_count.ret.v))

has_prev_page(self) ==
    LET current_page == attribute(self, "current_page")
    IN  IF current_page.raised THEN current_page
        ELSE Return(Bool(current_page.ret.v > 1))

is_last_page(self) ==
    LET r == has_next_page(self) IN IF r.raised THEN r ELSE Return(not(r.ret))

is_first_page(self) ==
    LET r == has_prev_page(self) IN IF r.raised THEN r ELSE Return(not(r.ret))

\* ---------------------------------------------------------------- collection operations
HasCollection == ~collection.raised /\ "items" \in DOMAIN collection.ret

NotConstructed == ~collection.raised /\ "items" \notin DOMAIN collection.ret

Construct ==
    /\ NotConstructed
    /\ collection' = ProjectsCollection(raw_data)
    /\ UNCHANGED << clientVars, threadVars, raw_data, answers >>

Ask(query, outcome) ==
    /\ HasCollection
    /\ answers' = [ q \in DOMAIN answers \cup {query} |->
                      IF q = query THEN outcome ELSE answers[q] ]
    /\ UNCHANGED << clientVars, threadVars, raw_data, collection >>

HasNextPage == Ask("has_next_page", has_next_page(collection.ret))
HasPrevPage == Ask("has_prev_page", has_prev_page(collection.ret))
IsLastPage == Ask("is_last_page", is_last_page(collection.ret))
IsFirstPage == Ask("is_first_page", is_first_page(collection.ret))

NextCollection == Construct \/ HasNextPage \/ HasPrevPage \/ IsLastPage \/ IsFirstPage

\* A client constructed with the default timeouts has received a raw page.
InitCollection ==
    /\ InitClient
    /\ connect_timeout = None
    /\ read_timeout = None
    /\ raw_data \in RawPages
    /\ collection = Return(None)
    /\ answers = << >>

SpecCollection == InitCollection /\ [][NextCollection]_vars

\* ---------------------------------------------------------------- endpoint calls
\* What a handler's verb gives back: the raw JSON dict of the reply, or the error
\* of the transport.
RawBranches == { [branch_id |-> 1, name |-> "hotfix"], [branch_id |-> 2, name |-> "master"] }

MergeResponses ==
    { [project_id |-> "123.abc", branch_merged |-> TRUE] }
    \cup { [project_id |-> "123.abc", branch_merged |-> TRUE, branch |-> b] :
             b \in RawBranches }
    \cup { [project_id |-> "123.abc", branch_merged |-> TRUE, target_branch |-> b] :
             b \in RawBranches }
    \cup { [project_id |-> "123.abc", branch_merged |-> TRUE, branch |-> b, target_branch |-> tb] :
             b \in RawBranches, tb \in RawBranches }

Acknowledgements == { [project_id |-> "123.abc", acknowledged |-> b] : b \in BOOLEAN }

TransportErrors == { Raise("ClientError") }

MergeOutcomes == { Return(r) : r \in MergeResponses } \cup TransportErrors
AcknowledgementOutcomes == { Return(r) : r \in Acknowledgements } \cup TransportErrors

\* The outcome "not called": the verb was never reached.
NotCalled == Return(None)

\* self.get_endpoint(name).<verb>(...): on an object that is no handler the
\* attribute lookup of the verb fails before any request is made.
call_endpoint(handler, outcome) ==
    IF IsHandler(handler) THEN outcome ELSE Raise("AttributeError")

\* ---------------------------------------------------------------- Client.merge_branch
BranchModel(raw) == [type |-> "BranchModel", raw |-> raw]

merge_branchFirstOnly(handler, outcome) ==
    LET response == call_endpoint(handler, outcome)
    IN  IF response.raised THEN response
        ELSE IF "branch" \notin DOMAIN response.ret THEN Raise("KeyError")
        ELSE Return([response.ret EXCEPT !["branch"] = BranchModel(@)])

merge_branch(handler, outcome) ==
    LET response == call_endpoint(handler, outcome)
    IN  IF response.raised THEN response
        ELSE IF "branch" \notin DOMAIN response.ret THEN Raise("KeyError")
        ELSE LET wrapped == [response.ret EXCEPT !["branch"] = BranchModel(@)]
             IN  IF "target_branch" \notin DOMAIN wrapped THEN Raise("KeyError")
                 ELSE Return([wrapped EXCEPT !["target_branch"] = BranchModel(@)])

\* ---------------------------------------------------------------- pass-through methods
\* The methods that return the handler's response as it is, each with the
\* endpoint it resolves.
PassThroughEndpoint ==
    [ method \in {"delete_branch", "delete_key_comment", "delete_contributor",
                  "download_files", "delete_language", "empty_project",
                  "delete_project"} |->
        CASE method = "delete_branch" -> "branches"
          [] method = "delete_key_comment" -> "key_comments"
          [] method = "delete_contributor" -> "contributors"
          [] method = "download_files" -> "files"
          [] method = "delete_language" -> "languages"
          [] method = "empty_project" -> "projects"
          [] method = "delete_project" -> "projects" ]

return_responseOrDefault(handler, outcome) ==
    LET response == call_endpoint(handler, outcome)
    IN  IF response.raised THEN Return(<< >>) ELSE response

return_response(handler, outcome) == call_endpoint(handler, outcome)

\* ---------------------------------------------------------------- method calls
\* A public method: get_endpoint(name), then the verb, then the method's shaping
\* of the response.  result is that shaping applied to the handler.
Method(op, name, outcome, result) ==
    LET r == get_endpoint(endpoint_attrs, name, next_id)
        called == IsHandler(r.ret)
    IN  /\ r.called => next_id <= MaxInstances
        /\ endpoint_attrs' = r.attrs
        /\ next_id' = IF r.called THEN next_id + 1 ELSE next_id
        /\ stored' = IF r.called THEN [stored EXCEPT ![name] = @ \cup {r.ret}] ELSE stored
        /\ returned' = [returned EXCEPT ![name] = @ \cup {r.ret}]
        /\ lastCall' = [op |-> op, name |-> name, raised |-> result.raised,
                        ret |-> result.ret, called |-> called,
                        response |-> IF called THEN outcome ELSE NotCalled]
        /\ UNCHANGED << token, connect_timeout, read_timeout, retired >>
        /\ UNCHANGED << threadVars, collectionVars >>

MergeBranch ==
    \E outcome \in MergeOutcomes :
        LET handler == get_endpoint(endpoint_attrs, "branches", next_id).ret
        IN  Method("merge_branch", "branches", outcome, merge_branch(handler, outcome))

PassThrough ==
    \E method \in DOMAIN PassThroughEndpoint, outcome \in AcknowledgementOutcomes :
        LET name == PassThroughEndpoint[method]
            handler == get_endpoint(endpoint_attrs, name, next_id).ret
        IN  Method(method, name, outcome, return_response(handler, outcome))

NextMethods == MergeBranch \/ PassThrough \/ ResetClient

\* A client constructed with the default timeouts.
InitMethods == Init /\ connect_timeout = None /\ read_timeout = None

SpecMethods == InitMethods /\ [][NextMethods]_vars

\* ================================================================ claims: Client
\* C1: between resets, every get_endpoint(n) call for a registered name n returns
\* the same object, and at most one handler is ever stored for n.
C1_SameInstance ==
    \A n \in RegisteredNames :
        /\ Cardinality(returned[n]) <= 1
        /\ Cardinality(stored[n]) <= 1
        /\ (lastCall.op = "get_endpoint" /\ lastCall.name = n)
              => returned[n] = {lastCall.ret}

\* A second get_endpoint(n) returned the handler memoized by an earlier call:
\* another handler was constructed after it.
C1_Witness ==
    /\ lastCall.op = "get_endpoint"
    /\ IsHandler(lastCall.ret)
    /\ lastCall.ret.v + 1 < next_id

\* C2: after reset_client, get_endpoint(n) for a name resolved before the reset
\* returns a handler instance, and not one returned before the reset.
C2_NewInstanceAfterReset ==
    (lastCall.op = "get_endpoint" /\ ~lastCall.raised /\ retired[lastCall.name] # {})
        => (IsHandler(lastCall.ret) /\ lastCall.ret \notin retired[lastCall.name])

\* C3 as stated: get_endpoint of a name that is not registered raises
\* ConfigurationError and leaves the endpoint attributes as they were.
C3_ConfigurationError ==
    [][(lastCall'.op = "get_endpoint" /\ lastCall'.name \notin RegisteredNames)
          => /\ lastCall'.raised
             /\ lastCall'.ret.type = "ConfigurationError"
             /\ endpoint_attrs' = endpoint_attrs]_vars

\* C3 amended: get_endpoint of a name that is not registered raises the import's
\* ModuleNotFoundError and leaves the endpoint attributes as they were.
C3_ImportErrorMapUnchanged ==
    [][(lastCall'.op = "get_endpoint" /\ lastCall'.name \notin RegisteredNames)
          => /\ lastCall'.raised
             /\ lastCall'.ret.type = "ModuleNotFoundError"
             /\ endpoint_attrs' = endpoint_attrs]_vars

\* get_endpoint of an unknown name has failed on a client that holds a handler.
C3_Witness ==
    /\ lastCall.op = "get_endpoint"
    /\ lastCall.name \in UnknownNames
    /\ lastCall.raised
    /\ \E n \in DOMAIN endpoint_attrs : IsHandler(endpoint_attrs[n])

\* C4: right after reset_client the token is empty, both timeouts are None and no
\* name has a memoized handler.
C4_ResetClearsAll ==
    lastCall.op = "reset_client"
        => /\ token = ""
           /\ connect_timeout = None
           /\ read_timeout = None
           /\ \A n \in DOMAIN endpoint_attrs : ~IsHandler(endpoint_attrs[n])

\* reset_client has run on a client that had resolved two handlers.
C4_Witness ==
    /\ lastCall.op = "reset_client"
    /\ Cardinality(DOMAIN endpoint_attrs) >= 2

\* C5: under every interleaving of concurrent get_endpoint(n) calls, all callers
\* receive the same handler and at most one handler is ever stored for n.
C5_ConcurrentCallsHarmless ==
    \A n \in RegisteredNames :
        /\ \A x, y \in returned[n] : x = y
        /\ \A x, y \in stored[n] : x = y

\* ================================================================ claims: ProjectsCollection
PaginationFields == {"total_count", "page_count", "limit", "current_page"}

HeaderOf(field) ==
    CASE field = "total_count" -> "x-pagination-total-count"
      [] field = "page_count" -> "x-pagination-page-count"
      [] field = "limit" -> "x-pagination-limit"
      [] field = "current_page" -> "x-pagination-page"

AllAsked == DOMAIN answers = {"has_next_page", "has_prev_page", "is_last_page", "is_first_page"}

\* C6: a collection constructed from a page without "_pagination" has the four
\* pagination fields equal to 0, and its queries answer has_next_page = False,
\* has_prev_page = False, is_first_page = True, is_last_page = True without failing.
C6_NoPaginationDefaults ==
    (HasCollection /\ "_pagination" \notin DOMAIN raw_data)
        => /\ \A f \in PaginationFields :
                 LET r == attribute(collection.ret, f)
                 IN  ~r.raised /\ r.ret = PyInt(0)
           /\ \A q \in DOMAIN answers :
                 /\ ~answers[q].raised
                 /\ answers[q].ret = IF q \in {"has_next_page", "has_prev_page"}
                                     THEN False ELSE True

\* C7 as stated: constructing from a page without the "projects" key fails with
\* MalformedResponseError.
C7_MalformedResponseError ==
    ("projects" \notin DOMAIN raw_data /\ ~NotConstructed)
        => (collection.raised /\ collection.ret.type = "MalformedResponseError")

\* C7 amended: constructing from a page without the "projects" key fails with
\* KeyError; it never yields a collection.
C7_KeyError ==
    ("projects" \notin DOMAIN raw_data /\ ~NotConstructed)
        => (collection.raised /\ collection.ret.type = "KeyError")

\* The construction from a page that has a pagination block but no "projects"
\* key has failed.
C7_Witness ==
    /\ "projects" \notin DOMAIN raw_data
    /\ "_pagination" \in DOMAIN raw_data
    /\ collection.raised

\* C8: the collection's items are the page's items, one model per item, in the
\* page's order.
C8_ItemsInOrder ==
    HasCollection
        => LET items == collection.ret.items
               raw_items == raw_data["projects"]
           IN  /\ Len(items) = Len(raw_items)
               /\ \A i \in 1..Len(raw_items) :
                     items[i].type = "ProjectModel" /\ items[i].raw = raw_items[i]

\* A collection was constructed from a paginated page of two different items.
C8_Witness ==
    /\ HasCollection
    /\ "_pagination" \in DOMAIN raw_data
    /\ Len(collection.ret.items) = 2
    /\ collection.ret.items[1] # collection.ret.items[2]

\* C9: every constructed collection has all four pagination fields: each is the
\* integer of its header in the "_pagination" block, or 0 when the block or the
\* header is missing.
C9_PaginationAllOrDefault ==
    HasCollection
        => LET block == dict_get(raw_data, "_pagination", << >>)
           IN  \A f \in PaginationFields :
                  /\ f \in DOMAIN collection.ret
                  /\ collection.ret[f] = IF HeaderOf(f) \in DOMAIN block
                                         THEN int(block[HeaderOf(f)]).ret
                                         ELSE PyInt(0)

\* The part of C9 the constructor keeps: the four fields are set together or not
\* at all.
C9_NeverPartial ==
    HasCollection
        => (PaginationFields \cap DOMAIN collection.ret) \in { {}, PaginationFields }

\* C10: on a collection with current_page and page_count, has_next_page is
\* current_page > 0 and current_page < page_count, has_prev_page is
\* current_page > 1, is_last_page and is_first_page are their negations.
C10_PageQueries ==
    (HasCollection /\ {"current_page", "page_count"} \subseteq DOMAIN collection.ret)
        => LET current_page == collection.ret["current_page"].v
               page_count == collection.ret["page_count"].v
               asked(q, b) == q \in DOMAIN answers => answers[q] = Return(Bool(b))
           IN  /\ asked("has_next_page", current_page > 0 /\ current_page < page_count)
               /\ asked("has_prev_page", current_page > 1)
               /\ asked("is_last_page", ~(current_page > 0 /\ current_page < page_count))
               /\ asked("is_first_page", ~(current_page > 1))

\* All four queries were answered on a collection whose current_page is beyond
\* its page_count.
C10_Witness ==
    /\ HasCollection
    /\ AllAsked
    /\ {"current_page", "page_count"} \subseteq DOMAIN collection.ret
    /\ collection.ret["current_page"].v > collection.ret["page_count"].v
    /\ collection.ret["page_count"].v > 0
    /\ answers["is_last_page"] = Return(True)
    /\ answers["has_prev_page"] = Return(True)

\* ================================================================ claims: frame of get_endpoint
\* C13: a newly constructed client has no memoized handler, and a get_endpoint(n)
\* that returns leaves token, connect_timeout, read_timeout and the entry of every
\* other name as they were, and adds an entry for n only if there was none.
C13_LazyAndFrame ==
    /\ endpoint_attrs = << >>
    /\ [][(lastCall'.op = "get_endpoint" /\ ~lastCall'.raised)
            => /\ token' = token
               /\ connect_timeout' = connect_timeout
               /\ read_timeout' = read_timeout
               /\ DOMAIN endpoint_attrs' = DOMAIN endpoint_attrs \cup {lastCall'.name}
               /\ \A m \in DOMAIN endpoint_attrs : endpoint_attrs'[m] = endpoint_attrs[m]]_vars

\* get_endpoint constructed a second handler on a client that was given timeouts.
C13_Witness ==
    /\ lastCall.op = "get_endpoint"
    /\ IsHandler(lastCall.ret)
    /\ lastCall.ret.v = 2
    /\ Cardinality(DOMAIN endpoint_attrs) = 2
    /\ token = "api_token"
    /\ connect_timeout = PyInt(5)

\* ================================================================ claims: response shaping
IsBranchModelOf(x, raw) ==
    /\ DOMAIN x = {"type", "raw"}
    /\ x.type = "BranchModel"
    /\ x.raw = raw

\* C11: when the endpoint's response has raw "branch" and "target_branch" objects,
\* merge_branch returns it with both wrapped in models and every other field as
\* it was; whatever the response, a merge_branch that returns has wrapped both.
C11_MergeWrapsBoth ==
    (lastCall.op = "merge_branch")
        => /\ (lastCall.called /\ ~lastCall.response.raised
                 /\ {"branch", "target_branch"} \subseteq DOMAIN lastCall.response.ret)
                => LET raw == lastCall.response.ret
                   IN  /\ ~lastCall.raised
                       /\ DOMAIN lastCall.ret = DOMAIN raw
                       /\ \A k \in DOMAIN raw \ {"branch", "target_branch"} :
                             lastCall.ret[k] = raw[k]
           /\ ~lastCall.raised
                => /\ lastCall.called /\ ~lastCall.response.raised
                   /\ {"branch", "target_branch"} \subseteq DOMAIN lastCall.ret
                   /\ {"branch", "target_branch"} \subseteq DOMAIN lastCall.response.ret
                   /\ IsBranchModelOf(lastCall.ret["branch"], lastCall.response.ret["branch"])
                   /\ IsBranchModelOf(lastCall.ret["target_branch"],
                                      lastCall.response.ret["target_branch"])

\* merge_branch returned a response whose two branches differ.
C11_Witness ==
    /\ lastCall.op = "merge_branch"
    /\ ~lastCall.raised
    /\ lastCall.ret["branch"].raw # lastCall.ret["target_branch"].raw
    /\ lastCall.ret["project_id"] = "123.abc"

\* C12: download_files, empty_project and the delete_* methods give the caller the
\* outcome of the handler's call as it is: the same raw dict, or the same error.
C12_PassThrough ==
    (lastCall.op \in DOMAIN PassThroughEndpoint /\ lastCall.called)
        => IF lastCall.response.raised
           THEN lastCall.raised /\ lastCall.ret = lastCall.response.ret
           ELSE ~lastCall.raised /\ lastCall.ret = lastCall.response.ret

\* empty_project returned the handler's acknowledgement on a client that was
\* reset before.
C12_Witness ==
    /\ lastCall.op = "empty_project"
    /\ lastCall.called
    /\ ~lastCall.raised
    /\ lastCall.ret \in Acknowledgements
    /\ token = ""

====
